---- MODULE Spec2Model ----
(***************************************************************************)
(* The session of app.py (My Edu AI Assistant), a Streamlit script.        *)
(*                                                                         *)
(* Streamlit runs the script from top to bottom once per user event (a     *)
(* button click, an edited widget) and once more after every st.rerun().   *)
(* A run passes, in this order, the sections                               *)
(*   1 learn, 2 clear-topic, 3 chat display loop with the feedback         *)
(*   buttons, 4 chat, 5 quiz, 6 clear-quiz.                                *)
(* A button section acts only in the run its button triggered; the chat    *)
(* section acts in every run in which the chat input box is non-empty.     *)
(* st.session_state survives between the runs; it is the session store.    *)
(*                                                                         *)
(* Texts are TLA+ strings, compared character by character.  The emoji     *)
(* U+1F9EA that starts the quiz titles is written "{U+1F9EA}".             *)
(* A Python value that may be None is a sequence of length at most one:    *)
(* <<>> is None and <<v>> is v.                                            *)
(***************************************************************************)
EXTENDS Integers, Sequences, FiniteSets, TLC

VARIABLES
    session_state,  \* st.session_state without the widget keys: a dict
    chat_input,     \* the value of the text box with key "chat_input_main"
    page,           \* what the last pass of the display loop rendered
    pc,             \* the section of the script the current run is at, or "idle"
    trigger,        \* the button that triggered the current run
    call,           \* the last gateway call since the user event: None or <<call>>
    before,         \* history: the store as it was when that handler began
    clock,          \* the last reading of datetime.datetime.now()
    lastOp,         \* history: the outcome of the last handler since the user event
    produced        \* history: the number of turns the content of the chat box produced

vars == <<session_state, chat_input, page, pc, trigger, call, before, clock, lastOp,
          produced>>

(***************************************************************************)
(* Bounds of the model.                                                    *)
(***************************************************************************)
MaxTurns == 2
MaxFeedback == 2

(***************************************************************************)
(* The inputs: what the user types and picks, what the gateway answers.    *)
(***************************************************************************)
TopicInputs == {"", " ", "Photosynthesis"}
ChatInputs == {"", "What is it?"}
\* the gateway's answers to a learn, a chat and a quiz request
LearnResponses == {"", "Plants use light."}
ChatResponses == {"Photosynthesis is how plants make food."}
QuizResponses == {"Q1. What is ...? A) ... B) ... Correct Answer: A"}
PersonaOptions == {"Fun", "Teacher", "Translator"}
LangOptions == {"English", "Hindi"}
SubjectOptions == {"Math", "Science", "English"}
GradeOptions == {ToString(i) : i \in 1..12}
PersonaInputs == {"Teacher"}
LangInputs == {"English"}
SubjectInputs == {"Math"}
GradeInputs == {ToString(5)}
ChapterInputs == {"", "Fractions"}
\* the instants datetime.datetime.now() reads, as timestamps: two readings
\* are of the same instant or of different ones
ClockReadings == {0, 1}

(***************************************************************************)
(* Python values.                                                          *)
(***************************************************************************)
None == <<>>
Some(v) == <<v>>
\* bool(s) of a str
Truthy(s) == s # ""
\* bool(o) of a value that is None or a str
TruthyOpt(o) == o # None /\ Truthy(o[1])
\* s.strip() == "" : the text holds nothing but whitespace
IsBlank(s) == \A i \in 1..Len(s) : SubSeq(s, i, i) \in {" ", "\t", "\n"}
\* sub in s
Contains(s, sub) ==
    \E i \in 1..(Len(s) - Len(sub) + 1) : SubSeq(s, i, i + Len(sub) - 1) = sub
StartsWith(s, pre) == Len(pre) <= Len(s) /\ SubSeq(s, 1, Len(pre)) = pre
\* d[k] = v, del d[k], d.get(k), k in d
SetItem(d, k, v) == [x \in DOMAIN d \cup {k} |-> IF x = k THEN v ELSE d[x]]
DelItem(d, k) == [x \in DOMAIN d \ {k} |-> d[x]]
Get(d, k) == IF k \in DOMAIN d THEN Some(d[k]) ELSE None
Has(d, k) == k \in DOMAIN d
\* str(datetime.datetime.now().timestamp()) and .isoformat(): the decimal
\* rendering of the instant read, one text per instant
str(ts) == ToString(ts)
isoformat(ts) == ToString(ts)

(***************************************************************************)
(* The prompts.                                                            *)
(***************************************************************************)
learn_prompt(learn_topic_input) ==
    "Explain the topic: " \o learn_topic_input
    \o ". Provide a clear and concise explanation suitable for a student learning this for the first time. Focus on key concepts."

learn_messages(learn_topic_input) ==
    [system |-> "You are an AI assistant that provides educational content.",
     user   |-> learn_prompt(learn_topic_input)]

base_system_message(persona, lang) ==
    "You are an AI assistant. Your persona is " \o persona
    \o ". Respond in " \o lang \o "."

context_template(learning_topic, learning_content) ==
    " The user is currently learning about '" \o learning_topic \o "'. "
    \o "Please try to answer questions in the context of the following material: '"
    \o learning_content \o "'. "
    \o "If the question is unrelated, you can answer more generally but indicate if it's outside the scope of the current topic."

system_message_content_or(persona, lang, learning_topic, learning_content) ==
    base_system_message(persona, lang)
    \o (IF TruthyOpt(learning_topic) \/ TruthyOpt(learning_content)
        THEN context_template(learning_topic[1], learning_content[1])
        ELSE "")

\* learning_topic and learning_content are the results of session_state.get
system_message_content(persona, lang, learning_topic, learning_content) ==
    base_system_message(persona, lang)
    \o (IF TruthyOpt(learning_topic) /\ TruthyOpt(learning_content)
        THEN context_template(learning_topic[1], learning_content[1])
        ELSE "")

chat_messages(d, persona, lang, current_user_input) ==
    [system |-> system_message_content(persona, lang,
                    Get(d, "learning_topic"), Get(d, "learning_content")),
     user   |-> current_user_input]

quiz_format ==
    " Each question should have 3-4 options, with one correct answer. Format clearly with each question numbered (Q1, Q2, etc.), options lettered (A, B, C), and explicitly state the 'Correct Answer: [Letter]' for each question."

content_quiz_prompt(learning_content) ==
    "Generate a 3-question multiple-choice quiz based on the following text: '"
    \o learning_content \o "'." \o quiz_format

content_quiz_title(learning_topic) == "{U+1F9EA} Quiz on: " \o learning_topic

topic_for_prompt_always_chapter(chapter) == "Chapter: " \o chapter

topic_for_prompt(chapter) ==
    IF Truthy(chapter) THEN "Chapter: " \o chapter ELSE "general topics"

curriculum_quiz_prompt(subject, grade, chapter) ==
    "Generate a 3-question multiple-choice quiz for a Class " \o grade
    \o " student on " \o topic_for_prompt(chapter) \o " in " \o subject \o "."
    \o quiz_format

curriculum_quiz_title(subject, grade, chapter) ==
    "{U+1F9EA} Quiz: " \o subject \o " - Class " \o grade \o " "
    \o (IF Truthy(chapter) THEN "- " \o chapter ELSE "")

quiz_plan_curriculum_first(d, subject, grade, chapter) ==
    LET learning_content == Get(d, "learning_content")
        learning_topic == Get(d, "learning_topic")
    IN  IF Truthy(subject) /\ Truthy(grade)
        THEN [branch |-> "curriculum",
              quiz_context_defined |-> TRUE,
              prompt |-> curriculum_quiz_prompt(subject, grade, chapter),
              quiz_title |-> curriculum_quiz_title(subject, grade, chapter)]
        ELSE IF TruthyOpt(learning_content) /\ TruthyOpt(learning_topic)
        THEN [branch |-> "content",
              quiz_context_defined |-> TRUE,
              prompt |-> content_quiz_prompt(learning_content[1]),
              quiz_title |-> content_quiz_title(learning_topic[1])]
        ELSE [branch |-> "none",
              quiz_context_defined |-> FALSE,
              prompt |-> "",
              quiz_title |-> "{U+1F9EA} Quiz"]

\* The branch selection of the quiz handler: the locals it leaves behind.
quiz_plan(d, subject, grade, chapter) ==
    LET learning_content == Get(d, "learning_content")
        learning_topic == Get(d, "learning_topic")
    IN  IF TruthyOpt(learning_content) /\ TruthyOpt(learning_topic)
        THEN [branch |-> "content",
              quiz_context_defined |-> TRUE,
              prompt |-> content_quiz_prompt(learning_content[1]),
              quiz_title |-> content_quiz_title(learning_topic[1])]
        ELSE IF Truthy(subject) /\ Truthy(grade)
        THEN [branch |-> "curriculum",
              quiz_context_defined |-> TRUE,
              prompt |-> curriculum_quiz_prompt(subject, grade, chapter),
              quiz_title |-> curriculum_quiz_title(subject, grade, chapter)]
        ELSE [branch |-> "none",
              quiz_context_defined |-> FALSE,
              prompt |-> "",
              quiz_title |-> "{U+1F9EA} Quiz"]

quiz_messages(prompt) ==
    [system |-> "You are an AI assistant that generates educational quizzes.",
     user   |-> prompt]

(***************************************************************************)
(* The chat display loop.  A turn of chat_history is the tuple             *)
(* (user_input, ai_response, persona, message_id).  The buttons of a turn  *)
(* have the keys up_{msg_id} and down_{msg_id}; Streamlit raises           *)
(* DuplicateWidgetID at the second button with a key already used in the   *)
(* run, which ends the run there: the turns from the first repeated id on, *)
(* and every section below the loop, are not reached.                      *)
(***************************************************************************)
msg_ids(h) == [i \in 1..Len(h) |-> h[i][4]]
Distinct(ids) == \A i, j \in 1..Len(ids) : i # j => ids[i] # ids[j]
RenderedTurns(h) ==
    CHOOSE n \in 0..Len(h) :
        /\ Distinct(SubSeq(msg_ids(h), 1, n))
        /\ n < Len(h) => ~Distinct(SubSeq(msg_ids(h), 1, n + 1))
LoopCrashes(h) == RenderedTurns(h) < Len(h)
Render(d) == [turns    |-> RenderedTurns(d.chat_history),
              complete |-> ~LoopCrashes(d.chat_history)]

\* 'learning_content' in st.session_state and st.session_state.learning_content
ShowsTopic(d) == Has(d, "learning_content") /\ Truthy(d.learning_content)
\* 'generated_quiz_text' in st.session_state and st.session_state.generated_quiz_text
ShowsQuiz(d) == Has(d, "generated_quiz_text") /\ TruthyOpt(d.generated_quiz_text)

(***************************************************************************)
(* The sections of one script run, in the order of the script, and the     *)
(* next section that acts in a run triggered by trig.                      *)
(***************************************************************************)
SectionName == <<"learn", "clear_topic", "feedback", "chat", "quiz", "clear_quiz">>
NoButton == [kind |-> "none", idx |-> 0, text |-> ""]
Button(kind, idx, text) == [kind |-> kind, idx |-> idx, text |-> text]

Active(sec, trig, d, ci) ==
    CASE sec = 1 -> trig.kind = "learn"
      [] sec = 2 -> trig.kind = "clear_topic" /\ ShowsTopic(d)
      [] sec = 3 -> trig.kind \in {"thumbs_up", "thumbs_down"}
                    /\ trig.idx <= RenderedTurns(d.chat_history)
      [] sec = 4 -> ~LoopCrashes(d.chat_history) /\ Truthy(ci)
      [] sec = 5 -> ~LoopCrashes(d.chat_history) /\ trig.kind = "quiz"
      [] sec = 6 -> ~LoopCrashes(d.chat_history) /\ trig.kind = "clear_quiz"
                    /\ ShowsQuiz(d)

NextSection(k, trig, d, ci) ==
    LET later == {s \in (k + 1)..6 : Active(s, trig, d, ci)}
    IN  IF later = {} THEN "end"
        ELSE SectionName[CHOOSE s \in later : \A t \in later : s <= t]

(***************************************************************************)
(* Init: the state after the first run of a new session.                   *)
(***************************************************************************)
Init ==
    /\ session_state = [chat_history |-> <<>>, feedback_log |-> <<>>]
    /\ chat_input = ""
    /\ page = [turns |-> 0, complete |-> TRUE]
    /\ pc = "idle"
    /\ trigger = NoButton
    /\ call = None
    /\ before = None
    /\ clock = 0
    /\ lastOp = "none"
    /\ produced = 0

(***************************************************************************)
(* User events: each starts one run of the script.  A button is pressed    *)
(* in the run its click started and in no other; learn_topic_input is the  *)
(* content of the topic box at the click.                                  *)
(***************************************************************************)
StartRun(trig, ci) ==
    LET first == NextSection(0, trig, session_state, ci)
    IN  /\ pc = "idle"
        /\ (Active(4, trig, session_state, ci)
                => Len(session_state.chat_history) < MaxTurns)
        /\ trigger' = IF first = "end" THEN NoButton ELSE trig
        /\ chat_input' = ci
        /\ produced' = IF ci = chat_input THEN produced ELSE 0
        /\ page' = Render(session_state)
        /\ pc' = first
        /\ UNCHANGED <<session_state, call, before, clock, lastOp>>

ClickLearn ==
    \E learn_topic_input \in TopicInputs :
        StartRun(Button("learn", 0, learn_topic_input), chat_input)

ClickClearTopic ==
    /\ ShowsTopic(session_state)
    /\ StartRun(Button("clear_topic", 0, ""), chat_input)

ClickFeedback ==
    \E i \in 1..page.turns, vote \in {"thumbs_up", "thumbs_down"} :
        /\ Len(session_state.feedback_log) < MaxFeedback
        /\ StartRun(Button(vote, i, ""), chat_input)

\* the box reports a content that differs from the one it had
EditChatInput ==
    \E text \in ChatInputs :
        /\ text # chat_input
        /\ page.complete
        /\ StartRun(NoButton, text)

ClickGenerateQuiz ==
    /\ page.complete
    /\ StartRun(Button("quiz", 0, ""), chat_input)

ClickClearQuiz ==
    /\ page.complete
    /\ ShowsQuiz(session_state)
    /\ StartRun(Button("clear_quiz", 0, ""), chat_input)

\* st.rerun(): the run ends here and a new one starts with no button pressed
Rerun(d, ci) ==
    /\ trigger' = NoButton
    /\ page' = Render(d)
    /\ pc' = NextSection(0, NoButton, d, ci)

\* the run goes on below section k
Continue(k, d, ci) ==
    LET next == NextSection(k, trigger, d, ci)
    IN  /\ pc' = next
        /\ trigger' = IF next = "end" THEN NoButton ELSE trigger
        /\ UNCHANGED page

\* the run reached the end of the script: the page waits for the next event
EndRun ==
    /\ pc = "end"
    /\ pc' = "idle"
    /\ call' = None
    /\ before' = None
    /\ lastOp' = "none"
    /\ UNCHANGED <<session_state, chat_input, produced, page, trigger, clock>>

(***************************************************************************)
(* The Completion Gateway: openai.ChatCompletion.create returns a          *)
(* completion or raises.  A call record holds the messages sent, the       *)
(* answer, and the locals of the handler that made it; it is kept, as      *)
(* history, until the run ends.                                            *)
(***************************************************************************)
NoLocals == [topic |-> "", persona |-> "", lang |-> "", title |-> "",
             branch |-> "", subject |-> "", grade |-> "", chapter |-> ""]

NewCall(kind, messages, locals) ==
    Some([kind |-> kind, status |-> "pending",
          system |-> messages.system, user |-> messages.user,
          response |-> "", locals |-> locals])

\* the call returned ai_response_text / raised
Returns(c, ai_response_text) ==
    Some([c[1] EXCEPT !.status = "ok", !.response = ai_response_text])
Raises(c) == Some([c[1] EXCEPT !.status = "error"])

(***************************************************************************)
(* Learn a topic (the handler of the "Get Learning Material" button).      *)
(***************************************************************************)
\* if learn_topic_input:
learn_topic_given(learn_topic_input) == Truthy(learn_topic_input)

LearnBegin ==
    /\ pc = "learn"
    /\ learn_topic_given(trigger.text)
    /\ call' = NewCall("learn", learn_messages(trigger.text),
                       [NoLocals EXCEPT !.topic = trigger.text])
    /\ before' = Some(session_state)
    /\ pc' = "learn_wait"
    /\ UNCHANGED <<session_state, chat_input, produced, page, trigger, clock, lastOp>>

LearnWarn ==
    /\ pc = "learn"
    /\ ~learn_topic_given(trigger.text)
    /\ lastOp' = "learn_warn"
    /\ call' = None
    /\ before' = Some(session_state)
    /\ Continue(1, session_state, chat_input)
    /\ UNCHANGED <<session_state, chat_input, produced, clock>>

learn_store_swapped(d, content, topic) ==
    SetItem(SetItem(d, "learning_content", topic), "learning_topic", content)

learn_store(d, content, topic) ==
    SetItem(SetItem(d, "learning_content", content), "learning_topic", topic)

learn_clear_stale_content_only(d) == DelItem(d, "learning_content")

\* the except branch: both keys are deleted when present
learn_clear_stale(d) == DelItem(DelItem(d, "learning_content"), "learning_topic")

LearnStore ==
    \E content \in LearnResponses :
        /\ pc = "learn_wait"
        /\ session_state' = learn_store(session_state, content,
                                        call[1].locals.topic)
        /\ lastOp' = "learn_ok"
        /\ call' = Returns(call, content)
        /\ Continue(1, session_state', chat_input)
        /\ UNCHANGED <<chat_input, produced, before, clock>>

LearnExcept ==
    /\ pc = "learn_wait"
    /\ session_state' = learn_clear_stale(session_state)
    /\ lastOp' = "learn_fail"
    /\ call' = Raises(call)
    /\ Continue(1, session_state', chat_input)
    /\ UNCHANGED <<chat_input, produced, before, clock>>

(***************************************************************************)
(* Clear Topic.                                                            *)
(***************************************************************************)
clear_topic_content_only(d) == DelItem(d, "learning_content")

clear_topic(d) == DelItem(DelItem(d, "learning_content"), "learning_topic")

ClearTopic ==
    /\ pc = "clear_topic"
    /\ session_state' = clear_topic(session_state)
    /\ lastOp' = "clear_topic"
    /\ call' = None
    /\ before' = Some(session_state)
    /\ Rerun(session_state', chat_input)
    /\ UNCHANGED <<chat_input, produced, clock>>

(***************************************************************************)
(* The feedback buttons of the turn the display loop is at.                *)
(***************************************************************************)
feedback_entry_swapped(turn, feedback, ts) ==
    [message_id  |-> turn[4],
     user_input  |-> turn[2],
     ai_response |-> turn[1],
     persona     |-> turn[3],
     feedback    |-> feedback,
     timestamp   |-> isoformat(ts)]

feedback_entry(turn, feedback, ts) ==
    [message_id  |-> turn[4],
     user_input  |-> turn[1],
     ai_response |-> turn[2],
     persona     |-> turn[3],
     feedback    |-> feedback,
     timestamp   |-> isoformat(ts)]

record_feedback_dedup(d, i, feedback, ts) ==
    LET entry == feedback_entry(d.chat_history[i], feedback, ts)
        others == SelectSeq(d.feedback_log,
                            LAMBDA e : e.message_id # entry.message_id)
    IN  [d EXCEPT !.feedback_log = Append(others, entry)]

record_feedback(d, i, feedback, ts) ==
    [d EXCEPT !.feedback_log =
        Append(@, feedback_entry(d.chat_history[i], feedback, ts))]

Feedback ==
    \E ts \in {t \in ClockReadings : t >= clock} :
        /\ pc = "feedback"
        /\ session_state' =
               record_feedback(session_state, trigger.idx, trigger.kind, ts)
        /\ clock' = ts
        /\ lastOp' = trigger.kind
        /\ call' = None
        /\ before' = Some(session_state)
        /\ Continue(3, session_state', chat_input)
        /\ UNCHANGED <<chat_input, produced>>

(***************************************************************************)
(* Chat: runs whenever the chat input box is non-empty.                    *)
(***************************************************************************)
ChatBegin ==
    \E persona \in PersonaInputs, lang \in LangInputs :
        /\ pc = "chat"
        /\ Len(session_state.chat_history) < MaxTurns
        /\ call' = NewCall("chat",
                           chat_messages(session_state, persona, lang, chat_input),
                           [NoLocals EXCEPT !.persona = persona, !.lang = lang])
        /\ before' = Some(session_state)
        /\ pc' = "chat_wait"
        /\ UNCHANGED <<session_state, chat_input, produced, page, trigger, clock, lastOp>>

\* message_id = str(datetime.datetime.now().timestamp())
new_message_id(ts) == str(ts)

append_turn_newest_first(d, current_user_input, ai_response_text, persona, message_id) ==
    [d EXCEPT !.chat_history =
        <<(<<current_user_input, ai_response_text, persona, message_id>>)>> \o @]

append_turn(d, current_user_input, ai_response_text, persona, message_id) ==
    [d EXCEPT !.chat_history =
        Append(@, <<current_user_input, ai_response_text, persona, message_id>>)]

(***************************************************************************)
(* After the append the handler assigns "" to st.session_state of the key  *)
(* of the chat box and calls st.rerun().  The box was instantiated earlier *)
(* in the same run, and Streamlit refuses an assignment to the key of an   *)
(* instantiated widget with a StreamlitAPIException, an Exception that     *)
(* the handler's except branch catches.  The framework is not part of the  *)
(* repository: both outcomes of the assignment are possible steps.         *)
(***************************************************************************)
ChatAppendAndClear ==
    \E ai_response_text \in ChatResponses, ts \in {t \in ClockReadings : t >= clock} :
        /\ pc = "chat_wait"
        /\ session_state' =
               append_turn(session_state, call[1].user, ai_response_text,
                           call[1].locals.persona, new_message_id(ts))
        /\ clock' = ts
        /\ chat_input' = ""
        /\ produced' = 0
        /\ lastOp' = "chat_ok"
        /\ call' = Returns(call, ai_response_text)
        /\ Rerun(session_state', chat_input')
        /\ UNCHANGED before

ChatAppendInputKept ==
    \E ai_response_text \in ChatResponses, ts \in {t \in ClockReadings : t >= clock} :
        /\ pc = "chat_wait"
        /\ session_state' =
               append_turn(session_state, call[1].user, ai_response_text,
                           call[1].locals.persona, new_message_id(ts))
        /\ clock' = ts
        /\ produced' = produced + 1
        /\ lastOp' = "chat_ok_input_kept"
        /\ call' = Returns(call, ai_response_text)
        /\ Continue(4, session_state', chat_input)
        /\ UNCHANGED <<chat_input, before>>

ChatExcept ==
    /\ pc = "chat_wait"
    /\ lastOp' = "chat_fail"
    /\ call' = Raises(call)
    /\ Continue(4, session_state, chat_input)
    /\ UNCHANGED <<session_state, chat_input, produced, before, clock>>

(***************************************************************************)
(* Quiz generator.                                                         *)
(***************************************************************************)
QuizBegin ==
    \E subject \in SubjectInputs, grade \in GradeInputs, chapter \in ChapterInputs :
        LET plan == quiz_plan(session_state, subject, grade, chapter)
        IN  /\ pc = "quiz"
            /\ IF plan.quiz_context_defined /\ Truthy(plan.prompt)
               THEN /\ session_state' =
                           SetItem(session_state, "generated_quiz_text", None)
                    /\ call' = NewCall("quiz", quiz_messages(plan.prompt),
                                   [NoLocals EXCEPT !.title = plan.quiz_title,
                                                    !.branch = plan.branch,
                                                    !.subject = subject,
                                                    !.grade = grade,
                                                    !.chapter = chapter])
                    /\ before' = Some(session_state)
                    /\ pc' = "quiz_wait"
                    /\ UNCHANGED <<trigger, page, lastOp>>
               ELSE /\ lastOp' = "quiz_warn"
                    /\ call' = None
                    /\ before' = Some(session_state)
                    /\ Continue(5, session_state, chat_input)
                    /\ UNCHANGED session_state
            /\ UNCHANGED <<chat_input, produced, clock>>

quiz_store_text_only(d, text, quiz_title) ==
    SetItem(d, "generated_quiz_text", Some(text))

quiz_store(d, text, quiz_title) ==
    SetItem(SetItem(d, "generated_quiz_text", Some(text)), "quiz_title", quiz_title)

quiz_clear_and_context(d) ==
    DelItem(DelItem(DelItem(DelItem(d, "generated_quiz_text"), "quiz_title"),
                    "learning_content"), "learning_topic")

quiz_clear_text_only(d) == DelItem(d, "generated_quiz_text")

quiz_clear(d) == DelItem(DelItem(d, "generated_quiz_text"), "quiz_title")

QuizStore ==
    \E text \in QuizResponses :
        /\ pc = "quiz_wait"
        /\ session_state' = quiz_store(session_state, text,
                                       call[1].locals.title)
        /\ lastOp' = "quiz_ok"
        /\ call' = Returns(call, text)
        /\ Continue(5, session_state', chat_input)
        /\ UNCHANGED <<chat_input, produced, before, clock>>

QuizExcept ==
    /\ pc = "quiz_wait"
    /\ session_state' = quiz_clear(session_state)
    /\ lastOp' = "quiz_fail"
    /\ call' = Raises(call)
    /\ Continue(5, session_state', chat_input)
    /\ UNCHANGED <<chat_input, produced, before, clock>>

ClearQuiz ==
    /\ pc = "clear_quiz"
    /\ session_state' = quiz_clear(session_state)
    /\ lastOp' = "clear_quiz"
    /\ call' = None
    /\ before' = Some(session_state)
    /\ Rerun(session_state', chat_input)
    /\ UNCHANGED <<chat_input, produced, clock>>

(***************************************************************************)
(* The specification.                                                      *)
(***************************************************************************)
Next ==
    \/ ClickLearn
    \/ ClickClearTopic
    \/ ClickFeedback
    \/ EditChatInput
    \/ ClickGenerateQuiz
    \/ ClickClearQuiz
    \/ LearnBegin
    \/ LearnWarn
    \/ LearnStore
    \/ LearnExcept
    \/ ClearTopic
    \/ Feedback
    \/ ChatBegin
    \/ ChatAppendAndClear
    \/ ChatAppendInputKept
    \/ ChatExcept
    \/ QuizBegin
    \/ QuizStore
    \/ QuizExcept
    \/ ClearQuiz
    \/ EndRun

Spec == Init /\ [][Next]_vars

TypeOK ==
    /\ DOMAIN session_state \subseteq
           {"chat_history", "feedback_log", "learning_topic",
            "learning_content", "generated_quiz_text", "quiz_title"}
    /\ Len(session_state.chat_history) <= MaxTurns
    /\ Len(session_state.feedback_log) <= MaxFeedback
    /\ clock \in ClockReadings
    /\ produced \in 0..MaxTurns
    /\ (chat_input = "" => produced = 0)
    /\ pc \in {"idle", "end", "learn_wait", "chat_wait", "quiz_wait"}
              \cup {SectionName[i] : i \in 1..6}
    /\ (pc \in {"learn_wait", "chat_wait", "quiz_wait"})
           = (call # None /\ call[1].status = "pending")
    /\ (call # None => before # None)
    /\ (pc = "idle" => call = None /\ before = None /\ lastOp = "none"
                        /\ trigger = NoButton)
    /\ PersonaInputs \subseteq PersonaOptions
    /\ LangInputs \subseteq LangOptions
    /\ SubjectInputs \subseteq SubjectOptions
    /\ GradeInputs \subseteq GradeOptions

(***************************************************************************)
(* What the properties below speak of.                                     *)
(***************************************************************************)
chat_history == session_state.chat_history
LearningContext(d) == <<Get(d, "learning_topic"), Get(d, "learning_content")>>
\* the last gateway call, of the handler `kind`, ended as `status`
LastCall(kind, status) ==
    call # None /\ call[1].kind = kind /\ call[1].status = status
\* the request that failed last: its gateway call raised
FailedRequest(kind) ==
    /\ lastOp = kind \o "_fail"
    /\ LastCall(kind, "error")

(***************************************************************************)
(* C1: the turn ids stored in chat_history are pairwise distinct, also     *)
(* when two turns are created at the same clock instant, and a chat        *)
(* exchange puts its turn behind the turns stored before it.               *)
(***************************************************************************)
C1_TurnIdsDistinctInOrder ==
    /\ Distinct(msg_ids(chat_history))
    /\ (lastOp \in {"chat_ok", "chat_ok_input_kept"} /\ LastCall("chat", "ok")
          => /\ Len(chat_history) = Len(before[1].chat_history) + 1
             /\ SubSeq(chat_history, 1, Len(chat_history) - 1)
                    = before[1].chat_history)

(***************************************************************************)
(* C2, as claimed: a failed learn, chat or quiz request leaves the prior   *)
(* learning context and the prior turn sequence as they were before the    *)
(* request.                                                                *)
(***************************************************************************)
C2_FailedRequestKeepsContextAndTurns ==
    \A kind \in {"learn", "chat", "quiz"} :
        FailedRequest(kind)
          => /\ LearningContext(session_state) = LearningContext(before[1])
             /\ chat_history = before[1].chat_history

(***************************************************************************)
(* C2, amended: a failed chat or quiz request leaves the prior learning    *)
(* context and the prior turn sequence as they were before the request; a  *)
(* failed learn request leaves the prior turn sequence as it was.          *)
(***************************************************************************)
C2_FailedRequestKeepsTurns ==
    \A kind \in {"learn", "chat", "quiz"} :
        FailedRequest(kind)
          => /\ chat_history = before[1].chat_history
             /\ (kind # "learn" =>
                   LearningContext(session_state) = LearningContext(before[1]))

C2_Witness ==
    /\ FailedRequest("quiz")
    /\ Len(chat_history) > 0
    /\ Has(session_state, "learning_content")

(***************************************************************************)
(* C3: after a learn request with a non-blank topic whose gateway call     *)
(* fails, neither the learning topic nor the learning content is in the    *)
(* session, whatever context was cached before the request.                *)
(***************************************************************************)
C3_FailedLearnRemovesContext ==
    lastOp = "learn_fail"
      => /\ ~Has(session_state, "learning_topic")
         /\ ~Has(session_state, "learning_content")

C3_Witness ==
    /\ FailedRequest("learn")
    /\ ~IsBlank(call[1].locals.topic)
    /\ Has(before[1], "learning_topic")
    /\ Has(before[1], "learning_content")

(***************************************************************************)
(* C4: the learning context is never partial: topic and content are both   *)
(* in the session or both not, and after clear-topic both are not.         *)
(***************************************************************************)
C4_ContextNeverPartial ==
    /\ Has(session_state, "learning_topic") = Has(session_state, "learning_content")
    /\ (lastOp = "clear_topic"
          => /\ ~Has(session_state, "learning_topic")
             /\ ~Has(session_state, "learning_content"))

C4_Witness ==
    /\ lastOp = "clear_topic"
    /\ Has(before[1], "learning_topic")
    /\ Has(before[1], "learning_content")

(***************************************************************************)
(* C5: a learn request with a blank topic (empty or whitespace only) makes *)
(* no gateway call and leaves the whole session store unchanged.           *)
(***************************************************************************)
C5_BlankTopicMakesNoCall ==
    /\ (call # None /\ call[1].kind = "learn"
          => ~IsBlank(call[1].locals.topic))
    /\ (lastOp = "learn_warn" => session_state = before[1])

(***************************************************************************)
(* C6: after a successful learn request for topic T with gateway response  *)
(* R the one learning context of the session is (T, R), whatever it was    *)
(* before.                                                                 *)
(***************************************************************************)
C6_LearnStoresTopicAndResponse ==
    lastOp = "learn_ok" /\ LastCall("learn", "ok")
      => LearningContext(session_state)
             = <<Some(call[1].locals.topic), Some(call[1].response)>>

C6_Witness ==
    /\ lastOp = "learn_ok"
    /\ LastCall("learn", "ok")
    /\ Has(before[1], "learning_topic")
    /\ before[1].learning_topic # call[1].locals.topic
    /\ before[1].learning_content # call[1].response

(***************************************************************************)
(* A learning context is present when topic and content are both stored    *)
(* and non-empty; an empty or missing one is absent.  The quiz titles of   *)
(* the code start with the test-tube icon and a space, which the titles of *)
(* the specification leave out: StripIcon is the title behind the icon.    *)
(***************************************************************************)
ContextPresent(d) ==
    /\ Has(d, "learning_topic") /\ d.learning_topic # ""
    /\ Has(d, "learning_content") /\ d.learning_content # ""
QuizIcon == "{U+1F9EA} "
StripIcon(title) ==
    IF StartsWith(title, QuizIcon)
    THEN SubSeq(title, Len(QuizIcon) + 1, Len(title))
    ELSE title
ChatCall == call # None /\ call[1].kind = "chat"
QuizCall == call # None /\ call[1].kind = "quiz"

(***************************************************************************)
(* C7: the system instruction of every chat request contains the learning  *)
(* topic and content verbatim when a learning context is present, and no   *)
(* part of the context template when it is absent; the user message is the *)
(* raw user input.                                                         *)
(***************************************************************************)
C7_ChatPromptCarriesContext ==
    ChatCall =>
        LET d == before[1]
            system == call[1].system
        IN  /\ ContextPresent(d)
                => /\ Contains(system, d.learning_topic)
                   /\ Contains(system, d.learning_content)
                   /\ Contains(system,
                        "learning about '" \o d.learning_topic \o "'")
                   /\ Contains(system,
                        "following material: '" \o d.learning_content \o "'")
            /\ ~ContextPresent(d)
                => /\ system = "You are an AI assistant. Your persona is "
                                 \o call[1].locals.persona \o ". Respond in "
                                 \o call[1].locals.lang \o "."
                   /\ ~Contains(system, "The user is currently learning about")
                   /\ ~Contains(system, "following material")
                   /\ ~Contains(system, "If the question is unrelated")
            /\ pc = "chat_wait" => call[1].user = chat_input

C7_Witness ==
    /\ ChatCall
    /\ pc = "chat_wait"
    /\ ContextPresent(before[1])
    /\ before[1].learning_topic = "Photosynthesis"

C9_CurriculumQuizTitle ==
    QuizCall /\ ~ContextPresent(before[1])
      => LET q == call[1].locals
         IN  StripIcon(q.title) =
                "Quiz: " \o q.subject \o " - Class " \o q.grade
                \o (IF q.chapter # "" THEN " - " \o q.chapter ELSE "")

(***************************************************************************)
(* C10: a quiz generated with no learning context has a prompt that names  *)
(* the selected grade and subject and, between them, "Chapter: {chapter}"  *)
(* when chapter is non-empty and "general topics" when it is empty.        *)
(***************************************************************************)
C10_CurriculumQuizPrompt ==
    QuizCall /\ ~ContextPresent(before[1])
      => LET q == call[1].locals
             prompt == call[1].user
         IN  /\ Contains(prompt,
                    "for a Class " \o q.grade \o " student on "
                    \o (IF q.chapter # "" THEN "Chapter: " \o q.chapter
                                          ELSE "general topics")
                    \o " in " \o q.subject \o ".")
             /\ (q.chapter = "" => ~Contains(prompt, "Chapter: "))
             /\ (q.chapter # "" => ~Contains(prompt, "general topics"))

C10_Witness ==
    /\ QuizCall
    /\ ~ContextPresent(before[1])
    /\ call[1].locals.chapter = ""
    /\ Contains(call[1].user, "general topics")

(***************************************************************************)
(* The feedback log, and what a vote is: the step of the feedback section  *)
(* for the button (thumbs_up or thumbs_down) of the turn trigger.idx.      *)
(***************************************************************************)
feedback_log == session_state.feedback_log
IsPrefix(s, t) == Len(s) <= Len(t) /\ SubSeq(t, 1, Len(s)) = s
EntriesFor(log, message_id) ==
    Cardinality({k \in 1..Len(log) : log[k].message_id = message_id})
Votes == {"thumbs_up", "thumbs_down"}

(***************************************************************************)
(* C12: the feedback log is append-only with no dedup.  A vote appends     *)
(* exactly one entry, carrying that vote and the id of the voted turn, at  *)
(* the end of the log, so the turn has one entry more than before; every   *)
(* other step leaves the log as it is; no step changes or removes an       *)
(* entry.                                                                  *)
(***************************************************************************)
C12_FeedbackLogAppendOnly ==
    [][LET old == session_state.feedback_log
           new == session_state'.feedback_log
       IN  /\ IsPrefix(old, new)
           /\ IF pc = "feedback"
              THEN LET turn == session_state.chat_history[trigger.idx]
                   IN  /\ Len(new) = Len(old) + 1
                       /\ new[Len(new)].feedback = trigger.kind
                       /\ new[Len(new)].message_id = turn[4]
                       /\ EntriesFor(new, turn[4]) = EntriesFor(old, turn[4]) + 1
              ELSE new = old]_vars

\* a second vote on the one turn of the session: the turn has two entries
C12_Witness ==
    /\ lastOp \in Votes
    /\ Len(chat_history) = 1
    /\ Len(before[1].feedback_log) = 1
    /\ Len(feedback_log) = 2
    /\ feedback_log[1].message_id = feedback_log[2].message_id
    /\ feedback_log[1].feedback # feedback_log[2].feedback

(***************************************************************************)
(* C13: a successful chat exchange appends exactly one turn (the user      *)
(* input sent, the gateway's response, the persona selected for that       *)
(* request, the id made of the clock reading taken then) at the end of     *)
(* chat_history; every other step leaves chat_history as it is; no step    *)
(* changes or removes a stored turn.                                       *)
(***************************************************************************)
C13_TurnsAppendOnly ==
    [][LET old == session_state.chat_history
           new == session_state'.chat_history
       IN  /\ IsPrefix(old, new)
           /\ IF pc = "chat_wait" /\ call'[1].status = "ok"
              THEN /\ call[1].user = chat_input
                   /\ new = Append(old, <<chat_input,
                                          call'[1].response,
                                          call[1].locals.persona,
                                          str(clock')>>)
              ELSE new = old]_vars

\* an exchange behind a stored turn, under the persona its request selected
C13_Witness ==
    /\ lastOp \in {"chat_ok", "chat_ok_input_kept"}
    /\ LastCall("chat", "ok")
    /\ Len(before[1].chat_history) = 1
    /\ Len(chat_history) = 2
    /\ chat_history[1][4] # chat_history[2][4]
    /\ chat_history[2][3] = call[1].locals.persona
    /\ chat_history[2][2] = call[1].response

(***************************************************************************)
(* What of a store can be read back: a generated_quiz_text that is None    *)
(* reads like one that is not stored (session_state.get gives None for     *)
(* both, and the page shows no quiz for both).                             *)
(***************************************************************************)
Readable(d) ==
    IF Has(d, "generated_quiz_text") /\ d.generated_quiz_text = None
    THEN DelItem(d, "generated_quiz_text")
    ELSE d
Pending == call # None /\ call[1].status = "pending"

(***************************************************************************)
(* C14: while the gateway call of a learn, chat or quiz request is         *)
(* pending, the session store reads as it did before the request; in       *)
(* particular a quiz result stored before a quiz request is still there    *)
(* while the call of that request is pending.                              *)
(***************************************************************************)
C14_PendingCallLeavesStoreUnchanged ==
    Pending =>
        /\ Readable(session_state) = Readable(before[1])
        /\ (call[1].kind = "quiz" /\ ShowsQuiz(before[1])
              => /\ ShowsQuiz(session_state)
                 /\ session_state.generated_quiz_text
                        = before[1].generated_quiz_text)

(***************************************************************************)
(* C15: the quiz result is a single slot.  After every step, a non-empty   *)
(* quiz text in the store has a title next to it, and the two are either   *)
(* the text and title that the successful generation of this step stored   *)
(* or the unchanged pair of the state before: so both are of the most      *)
(* recent successful generation.  The clear-quiz step removes both.        *)
(***************************************************************************)
C15_QuizSingleSlot ==
    [][LET old == session_state
           new == session_state'
       IN  /\ ShowsQuiz(new)
                => /\ Has(new, "quiz_title")
                   /\ \/ /\ pc = "quiz_wait"
                         /\ call'[1].status = "ok"
                         /\ new.generated_quiz_text = Some(call'[1].response)
                         /\ new.quiz_title = call[1].locals.title
                      \/ /\ ShowsQuiz(old)
                         /\ Has(old, "quiz_title")
                         /\ new.generated_quiz_text = old.generated_quiz_text
                         /\ new.quiz_title = old.quiz_title
           /\ pc = "clear_quiz"
                => /\ ~Has(new, "generated_quiz_text")
                   /\ ~Has(new, "quiz_title")]_vars

\* a generation that replaces a stored quiz by one with another title
C15_Witness ==
    /\ lastOp = "quiz_ok"
    /\ LastCall("quiz", "ok")
    /\ ShowsQuiz(before[1])
    /\ ShowsQuiz(session_state)
    /\ before[1].quiz_title # session_state.quiz_title
    /\ session_state.quiz_title = call[1].locals.title

(***************************************************************************)
(* C16: in every reachable state each entry of the feedback log refers to  *)
(* a turn stored in chat_history: its message_id is the id of a stored     *)
(* turn, and its user_input, ai_response and persona are the fields of     *)
(* that turn.                                                              *)
(***************************************************************************)
C16_FeedbackRefersToStoredTurn ==
    \A k \in 1..Len(feedback_log) :
        \E i \in 1..Len(chat_history) :
            chat_history[i] = <<feedback_log[k].user_input,
                                feedback_log[k].ai_response,
                                feedback_log[k].persona,
                                feedback_log[k].message_id>>

\* a vote on the second of two turns with different ids
C16_Witness ==
    /\ lastOp \in Votes
    /\ Len(chat_history) = 2
    /\ chat_history[1][4] # chat_history[2][4]
    /\ Len(feedback_log) > 0
    /\ feedback_log[Len(feedback_log)].message_id = chat_history[2][4]

(***************************************************************************)
(* C17: one submitted chat input produces at most one turn.  No gateway    *)
(* call is made for a content of the chat box that has produced a turn     *)
(* already, and no content of the chat box has produced two turns.         *)
(***************************************************************************)
C17_InputProducesOneTurn ==
    /\ (Pending /\ call[1].kind = "chat" => produced = 0)
    /\ produced <= 1

(***************************************************************************)
(* C18: after a quiz generation whose gateway call failed no quiz result   *)
(* is stored, neither text nor title, also when a quiz of an earlier       *)
(* generation was stored before the request; the learning context, the     *)
(* turns and the feedback log are as they were before the request.         *)
(***************************************************************************)
C18_FailedQuizStoresNothing ==
    FailedRequest("quiz")
      => /\ ~Has(session_state, "generated_quiz_text")
         /\ ~Has(session_state, "quiz_title")
         /\ LearningContext(session_state) = LearningContext(before[1])
         /\ chat_history = before[1].chat_history
         /\ feedback_log = before[1].feedback_log

\* the failed generation follows a stored quiz, a context, a turn and a vote
C18_Witness ==
    /\ FailedRequest("quiz")
    /\ ShowsQuiz(before[1])
    /\ Has(before[1], "quiz_title")
    /\ ContextPresent(before[1])
    /\ Len(chat_history) > 0
    /\ Len(feedback_log) > 0

====
